---- MODULE Spec2Model ----
(***************************************************************************)
(* Attendance-to-payroll pipeline of QuickHire Services: the attendance,   *)
(* employees, adjustments and payroll_runs tables (models/database.py),    *)
(* the attendance controller's operations and the payroll service's        *)
(* aggregate / compute / persist / generate operations.                    *)
(*                                                                         *)
(* Units.  Durations are whole seconds (the code divides by 3600.0 to get  *)
(* hours); money is whole cents; hour fields of a result are hundredths of *)
(* an hour.  round(x, 2) is modelled on exact rationals, ties to even.     *)
(***************************************************************************)
EXTENDS Integers, Sequences, FiniteSets, TLC

VARIABLES employees, adjustments, attendance, next_attendance_id,
          payroll_runs, current_user, result, pc, frame

vars == <<employees, adjustments, attendance, next_attendance_id,
          payroll_runs, current_user, result, pc, frame>>

store == <<employees, adjustments, attendance, next_attendance_id, payroll_runs>>

-----------------------------------------------------------------------------
(* Bounds of the model *)

\* rows the attendance table may hold in the system specifications
MaxEvents == 2
\* rows the payroll_runs table may hold
MaxRuns == 2
\* length of the attendance tables the function specification draws
MaxLen == 4

-----------------------------------------------------------------------------
(* Program constants *)

\* min(8.0, h), max(0.0, h - 8.0): the regular part of a day, in hours
RegularHoursPerDay == 8
\* duration = total_seconds() / 3600.0
SecondsPerHour == 3600
\* TaxPolicy.rate = 0.15, in percent
TaxRatePercent == 15
\* overtime_multiplier = 1.5, in halves
OvertimeMultiplierHalves == 3
\* seconds of a calendar day (datetime arithmetic)
SecondsPerDay == 86400

-----------------------------------------------------------------------------
(* Timestamps.  A stored timestamp is TEXT.  It is modelled by the fields   *)
(* of the text "YYYY-MM-DD<sep>HH:MM:SS": sep is "T" (what isoformat()      *)
(* writes) or " " (which fromisoformat and the strptime fallback accept),   *)
(* sec is the time of day in seconds; a time of day of 24:00:00 or more is  *)
(* text that no parser accepts.                                             *)

TS(y, mo, d, sep, sec) == [y |-> y, mo |-> mo, d |-> d, sep |-> sep, sec |-> sec]

\* ' ' (0x20) sorts before 'T' (0x54)
SepRank(sep) == IF sep = " " THEN 0 ELSE 1

\* The text up to the separator, "YYYY-MM-DD", as a number of the same order
DateKey(ts) == (ts.y * 100 + ts.mo) * 100 + ts.d

\* The text from the separator on, "<sep>HH:MM:SS", as a number of the same order
TimeKey(ts) == SepRank(ts.sep) * 100000 + ts.sec

\* a < b in SQLite's BINARY collation: the fixed-width fields compared from
\* left to right
TextLess(a, b) ==
    \/ DateKey(a) < DateKey(b)
    \/ DateKey(a) = DateKey(b) /\ TimeKey(a) < TimeKey(b)

IsLeap(y) == (y % 4 = 0 /\ y % 100 # 0) \/ y % 400 = 0

DaysInMonth(y, mo) ==
    IF mo = 2 THEN (IF IsLeap(y) THEN 29 ELSE 28)
    ELSE IF mo \in {4, 6, 9, 11} THEN 30 ELSE 31

\* datetime.fromisoformat(ts) / datetime.strptime(ts, ...) succeed
Parses(ts) ==
    /\ ts.mo \in 1..12
    /\ ts.d \in 1..DaysInMonth(ts.y, ts.mo)
    /\ ts.sec \in 0..(SecondsPerDay - 1)

\* Days from the civil date 0000-03-01 (proleptic Gregorian), as datetime
\* subtraction counts them.
DayNumber(y, mo, d) ==
    LET yy == IF mo <= 2 THEN y - 1 ELSE y
        mm == IF mo <= 2 THEN mo + 9 ELSE mo - 3
    IN  365 * yy + (yy \div 4) - (yy \div 100) + (yy \div 400)
          + ((153 * mm + 2) \div 5) + d - 1

\* (dt_b - dt_a).total_seconds() of the parsed datetimes
SecondsBetween(a, b) ==
    (DayNumber(b.y, b.mo, b.d) - DayNumber(a.y, a.mo, a.d)) * SecondsPerDay
      + (b.sec - a.sec)

\* dt.date()
DateOf(ts) == <<ts.y, ts.mo, ts.d>>

-----------------------------------------------------------------------------
(* round(x, 2) for x = n / d, d > 0: nearest, ties to even *)

RoundDiv(n, d) ==
    LET q == n \div d
        r == n - q * d
    IN  IF 2 * r < d THEN q
        ELSE IF 2 * r > d THEN q + 1
        ELSE IF q % 2 = 0 THEN q ELSE q + 1

-----------------------------------------------------------------------------
(* PayrollService._aggregate_hours_by_day, the raw-table path *)

\* start = f"{period_year:04d}-{period_month:02d}-01T00:00:00"
WindowStart(year, month) == TS(year, month, 1, "T", 0)

\* end: the first of the next month, of January of the next year after December
WindowEnd(year, month) ==
    IF month = 12 THEN TS(year + 1, 1, 1, "T", 0)
    ELSE TS(year, month + 1, 1, "T", 0)

\* timestamp >= ? AND timestamp < ?   (text comparison)
InWindow(ts, year, month) ==
    /\ ~TextLess(ts, WindowStart(year, month))
    /\ TextLess(ts, WindowEnd(year, month))

\* (variant) rows of equal text come out in reverse rowid order
RECURSIVE InsertByTimestampTiesFirst(_, _)
InsertByTimestampTiesFirst(sorted, row) ==
    IF sorted = <<>> THEN <<row>>
    ELSE IF ~TextLess(Head(sorted).timestamp, row.timestamp)
         THEN <<row>> \o sorted
         ELSE <<Head(sorted)>> \o InsertByTimestampTiesFirst(Tail(sorted), row)

\* ORDER BY timestamp: rows come in rowid order and are sorted by the text,
\* rows of equal text staying in rowid order (the attendance table has no
\* index, the rows are scanned by rowid and SQLite's sorter keeps the scan
\* order of equal keys; SQL itself leaves that order open).
RECURSIVE InsertByTimestamp(_, _)
InsertByTimestamp(sorted, row) ==
    IF sorted = <<>> THEN <<row>>
    ELSE IF TextLess(row.timestamp, Head(sorted).timestamp)
         THEN <<row>> \o sorted
         ELSE <<Head(sorted)>> \o InsertByTimestamp(Tail(sorted), row)

RECURSIVE OrderByTimestamp(_)
OrderByTimestamp(rows) ==
    IF rows = <<>> THEN <<>>
    ELSE InsertByTimestamp(OrderByTimestamp(SubSeq(rows, 1, Len(rows) - 1)),
                           rows[Len(rows)])

\* SELECT event, timestamp FROM attendance WHERE employee_id = ? AND
\* timestamp >= ? AND timestamp < ? ORDER BY timestamp
WindowRowOf(employee_id, year, month, row) ==
    row.employee_id = employee_id /\ InWindow(row.timestamp, year, month)

QueryMonth(att, employee_id, year, month) ==
    LET Wanted(row) == WindowRowOf(employee_id, year, month, row)
    IN  OrderByTimestamp(SelectSeq(att, Wanted))

\* the parsed list: rows whose timestamp no parser accepts are skipped
ParsedRows(rows) ==
    LET Ok(row) == Parses(row.timestamp)
    IN  SelectSeq(rows, Ok)

\* j = i + 1; while j < len(parsed) and parsed[j][0] != "sign_out": j += 1
\* (variant) a correction marker ends the search like a sign_out
RECURSIVE NextSignOutOrCorrection(_, _)
NextSignOutOrCorrection(parsed, j) ==
    IF j > Len(parsed) \/ parsed[j].event \in {"sign_out", "correction"} THEN j
    ELSE NextSignOutOrCorrection(parsed, j + 1)

RECURSIVE NextSignOut(_, _)
NextSignOut(parsed, j) ==
    IF j > Len(parsed) THEN j
    ELSE IF parsed[j].event = "sign_out" THEN j
    ELSE NextSignOut(parsed, j + 1)

\* (variant) day_hours[day_key] = duration: the day's last pair replaces the
\* earlier ones
AddDurationOverwriting(day_hours, day_key, duration) ==
    IF day_key \in DOMAIN day_hours
    THEN [day_hours EXCEPT ![day_key] = duration]
    ELSE day_hours @@ (day_key :> duration)

\* day_hours[day_key] += duration
AddDuration(day_hours, day_key, duration) ==
    IF day_key \in DOMAIN day_hours
    THEN [day_hours EXCEPT ![day_key] = @ + duration]
    ELSE day_hours @@ (day_key :> duration)

\* (variant) the pair credited to the date of its sign_out
CreditPairToEndDay(day_hours, ts_in, ts_out) ==
    IF SecondsBetween(ts_in, ts_out) > 0
    THEN AddDuration(day_hours, DateOf(ts_out), SecondsBetween(ts_in, ts_out))
    ELSE day_hours

\* if dt_out > dt: credit the sign-in's date
CreditPair(day_hours, ts_in, ts_out) ==
    IF SecondsBetween(ts_in, ts_out) > 0
    THEN AddDuration(day_hours, DateOf(ts_in), SecondsBetween(ts_in, ts_out))
    ELSE day_hours

\* (variant) the pairing that keeps the nearest sign_in: a sign_in followed by
\* another sign_in is dropped
RECURSIVE PairFromNearest(_, _, _)
PairFromNearest(parsed, i, day_hours) ==
    IF i > Len(parsed) THEN day_hours
    ELSE IF parsed[i].event = "sign_in"
    THEN LET j == NextSignOut(parsed, i + 1)
         IN  IF i < Len(parsed) /\ parsed[i + 1].event = "sign_in"
             THEN PairFromNearest(parsed, i + 1, day_hours)
             ELSE IF j <= Len(parsed)
             THEN PairFromNearest(parsed, j + 1,
                                  CreditPair(day_hours, parsed[i].timestamp,
                                             parsed[j].timestamp))
             ELSE PairFromNearest(parsed, i + 1, day_hours)
    ELSE PairFromNearest(parsed, i + 1, day_hours)

\* the pairing loop, from cursor i with the mapping built so far
RECURSIVE PairFrom(_, _, _)
PairFrom(parsed, i, day_hours) ==
    IF i > Len(parsed) THEN day_hours
    ELSE IF parsed[i].event = "sign_in"
    THEN LET j == NextSignOut(parsed, i + 1)
         IN  IF j <= Len(parsed)
             THEN PairFrom(parsed, j + 1,
                           CreditPair(day_hours, parsed[i].timestamp, parsed[j].timestamp))
             ELSE PairFrom(parsed, i + 1, day_hours)
    ELSE PairFrom(parsed, i + 1, day_hours)

\* date -> seconds worked; a date is present only when a pair was credited
aggregate_hours_by_day(att, employee_id, year, month) ==
    PairFrom(ParsedRows(QueryMonth(att, employee_id, year, month)), 1, <<>>)

-----------------------------------------------------------------------------
(* Rows and queries of the employees, adjustments and payroll_runs tables *)

\* hourly_rate=None
NoRate == <<>>

\* the value of a call that raised
NoValue == [none |-> TRUE]

\* SELECT ... FROM employees WHERE id = ? AND active = 1 returns a row
ActiveEmployee(emps, employee_id) ==
    employee_id \in DOMAIN emps /\ emps[employee_id].active

\* SELECT COALESCE(SUM(amount),0) FROM adjustments WHERE employee_id = ? AND
\* year = ? AND month = ?
RECURSIVE sum_adjustments(_, _, _, _)
sum_adjustments(adj, employee_id, year, month) ==
    IF adj = <<>> THEN 0
    ELSE (IF /\ Head(adj).employee_id = employee_id
             /\ Head(adj).year = year
             /\ Head(adj).month = month
          THEN Head(adj).amount ELSE 0)
         + sum_adjustments(Tail(adj), employee_id, year, month)

\* the regular part of one day: min(8.0, h), in seconds
RegularPart(secs) ==
    IF secs < RegularHoursPerDay * SecondsPerHour THEN secs
    ELSE RegularHoursPerDay * SecondsPerHour

\* the overtime part of one day: max(0.0, h - 8.0), in seconds
OvertimePart(secs) ==
    IF secs > RegularHoursPerDay * SecondsPerHour
    THEN secs - RegularHoursPerDay * SecondsPerHour ELSE 0

\* regular_hours = sum(min(8.0, h) for h in day_hours.values())
RECURSIVE SumRegular(_, _)
SumRegular(day_hours, days) ==
    IF days = {} THEN 0
    ELSE LET day == CHOOSE x \in days : TRUE
         IN  RegularPart(day_hours[day]) + SumRegular(day_hours, days \ {day})

regular_seconds(day_hours) == SumRegular(day_hours, DOMAIN day_hours)

\* overtime_hours = sum(max(0.0, h - 8.0) for h in day_hours.values())
RECURSIVE SumOvertime(_, _)
SumOvertime(day_hours, days) ==
    IF days = {} THEN 0
    ELSE LET day == CHOOSE x \in days : TRUE
         IN  OvertimePart(day_hours[day]) + SumOvertime(day_hours, days \ {day})

\* (variant, helper) the hours of a period, all days together
RECURSIVE SumPeriod(_, _)
SumPeriod(day_hours, days) ==
    IF days = {} THEN 0
    ELSE LET d == CHOOSE x \in days : TRUE
         IN  day_hours[d] + SumPeriod(day_hours, days \ {d})

\* (variant) the eight-hour threshold applied to the period's total
overtime_over_period(day_hours) ==
    OvertimePart(SumPeriod(day_hours, DOMAIN day_hours))

overtime_seconds(day_hours) == SumOvertime(day_hours, DOMAIN day_hours)

\* (variant) overtime paid at the plain hourly rate
GrossPayWithoutMultiplier(regular, overtime, rate) ==
    RoundDiv((regular + overtime) * rate, SecondsPerHour)

\* gross = round(regular_hours * hourly_rate
\*               + overtime_hours * hourly_rate * overtime_multiplier, 2), in cents
GrossPay(regular, overtime, rate) ==
    RoundDiv(regular * rate * 2 + overtime * rate * OvertimeMultiplierHalves,
             SecondsPerHour * 2)

\* tax = round(net_before_tax * rate, 2), in cents
TaxOn(net_before_tax) == RoundDiv(net_before_tax * TaxRatePercent, 100)

\* round(hours, 2): seconds to hundredths of an hour
HoursField(secs) == RoundDiv(secs * 100, SecondsPerHour)

\* the returned dict of compute_for_employee
PayrollDict(emps, adj, att, employee_id, year, month, rate) ==
    LET day_hours      == aggregate_hours_by_day(att, employee_id, year, month)
        regular        == regular_seconds(day_hours)
        overtime       == overtime_seconds(day_hours)
        gross          == GrossPay(regular, overtime, rate)
        adjusted       == sum_adjustments(adj, employee_id, year, month)
        net_before_tax == gross + adjusted
        tax            == TaxOn(net_before_tax)
    IN  [employee_id    |-> employee_id,
         full_name      |-> emps[employee_id].full_name,
         period         |-> <<year, month>>,
         hourly_rate    |-> rate,
         regular_hours  |-> HoursField(regular),
         overtime_hours |-> HoursField(overtime),
         gross          |-> gross,
         adjustments    |-> adjusted,
         tax            |-> tax,
         net            |-> net_before_tax - tax]

\* (variant) the employee lookups without "AND active = 1"
compute_for_employee_any_status(emps, adj, att, employee_id, year, month, hourly_rate) ==
    IF employee_id \notin DOMAIN emps
    THEN [err |-> "ValueError", val |-> NoValue]
    ELSE [err |-> "none",
          val |-> PayrollDict(emps, adj, att, employee_id, year, month,
                              IF hourly_rate = NoRate THEN emps[employee_id].rate
                              ELSE hourly_rate[1])]

\* (variant) a month without hours treated as an error
compute_for_employee_requiring_hours(emps, adj, att, employee_id, year, month, hourly_rate) ==
    IF ~ActiveEmployee(emps, employee_id)
         \/ DOMAIN aggregate_hours_by_day(att, employee_id, year, month) = {}
    THEN [err |-> "ValueError", val |-> NoValue]
    ELSE [err |-> "none",
          val |-> PayrollDict(emps, adj, att, employee_id, year, month,
                              IF hourly_rate = NoRate THEN emps[employee_id].rate
                              ELSE hourly_rate[1])]

\* compute_for_employee: [err, val]; err is "none" or the exception raised
compute_for_employee(emps, adj, att, employee_id, year, month, hourly_rate) ==
    IF hourly_rate = NoRate /\ ~ActiveEmployee(emps, employee_id)
    THEN [err |-> "ValueError", val |-> NoValue]
    ELSE IF ~ActiveEmployee(emps, employee_id)
    THEN [err |-> "ValueError", val |-> NoValue]
    ELSE [err |-> "none",
          val |-> PayrollDict(emps, adj, att, employee_id, year, month,
                              IF hourly_rate = NoRate THEN emps[employee_id].rate
                              ELSE hourly_rate[1])]

\* the rows of payroll_runs for one key
RunsFor(runs, employee_id, year, month) ==
    {i \in DOMAIN runs : /\ runs[i].employee_id = employee_id
                         /\ runs[i].year = year
                         /\ runs[i].month = month}

\* the computed columns of a payroll_runs row
RunFields(pr) ==
    [regular_hours     |-> pr.regular_hours,
     overtime_hours    |-> pr.overtime_hours,
     hourly_rate       |-> pr.hourly_rate,
     gross_pay         |-> pr.gross,
     total_adjustments |-> pr.adjustments,
     net_pay           |-> pr.net]

\* INSERT INTO payroll_runs (...) VALUES (...): the schema declares no UNIQUE
\* constraint, the row is appended under the next AUTOINCREMENT id
InsertRun(runs, employee_id, year, month, pr) ==
    Append(runs, [id |-> Len(runs) + 1, employee_id |-> employee_id,
                  year |-> year, month |-> month] @@ RunFields(pr))

\* (variant) an update that removes the run when nothing is left to pay
UpdateRunDroppingEmpty(runs, id, pr) ==
    LET Kept(row) == row.id # id
    IN  IF pr.regular_hours = 0 /\ pr.overtime_hours = 0 /\ pr.net = 0
        THEN SelectSeq(runs, Kept)
        ELSE [i \in DOMAIN runs |->
                 IF runs[i].id = id
                 THEN [id |-> runs[i].id, employee_id |-> runs[i].employee_id,
                       year |-> runs[i].year, month |-> runs[i].month]
                      @@ RunFields(pr)
                 ELSE runs[i]]

\* UPDATE payroll_runs SET ... WHERE id = ?
UpdateRun(runs, id, pr) ==
    [i \in DOMAIN runs |->
        IF runs[i].id = id
        THEN [id |-> runs[i].id, employee_id |-> runs[i].employee_id,
              year |-> runs[i].year, month |-> runs[i].month] @@ RunFields(pr)
        ELSE runs[i]]

\* (variant) persist_for_employee without the existence check
UpsertRunAlwaysInsert(runs, exists, employee_id, year, month, pr) ==
    InsertRun(runs, employee_id, year, month, pr)

\* the INSERT / UPDATE of persist_for_employee, after SELECT id returned
\* `exists` (the set of matching rows: fetchone takes the first)
UpsertRun(runs, exists, employee_id, year, month, pr) ==
    IF exists # {}
    THEN UpdateRun(runs, runs[CHOOSE i \in exists : \A k \in exists : i <= k].id, pr)
    ELSE InsertRun(runs, employee_id, year, month, pr)

\* persist_for_employee: [out, runs, sql]
persist_for_employee(emps, adj, att, runs, employee_id, year, month, hourly_rate) ==
    LET out    == compute_for_employee(emps, adj, att, employee_id, year, month, hourly_rate)
        exists == RunsFor(runs, employee_id, year, month)
    IN  IF out.err # "none"
        THEN [out |-> out, runs |-> runs, sql |-> "none"]
        ELSE [out  |-> out,
              runs |-> UpsertRun(runs, exists, employee_id, year, month, out.val),
              sql  |-> IF exists # {} THEN "update" ELSE "insert"]

\* SELECT ... FROM employees WHERE active = 1, in rowid order
RECURSIVE ActiveIds(_, _)
ActiveIds(emps, ids) ==
    IF ids = {} THEN <<>>
    ELSE LET first == CHOOSE i \in ids : \A k \in ids : i <= k
         IN  (IF emps[first].active THEN <<first>> ELSE <<>>)
             \o ActiveIds(emps, ids \ {first})

\* (variant) the loop without try / except: the first failure ends the batch
RECURSIVE GenerateFromUnguarded(_, _, _, _, _, _, _, _, _)
GenerateFromUnguarded(emps, adj, att, runs, results, todo, year, month, fails) ==
    IF todo = <<>> THEN [results |-> results, runs |-> runs]
    ELSE LET emp_id == Head(todo)
             out == compute_for_employee(emps, adj, att, emp_id, year, month,
                                         <<emps[emp_id].rate>>)
         IN  IF out.err = "none" /\ emp_id \notin fails
             THEN GenerateFromUnguarded(emps, adj, att,
                                        InsertRun(runs, emp_id, year, month, out.val),
                                        Append(results, out.val), Tail(todo),
                                        year, month, fails)
             ELSE [results |-> results, runs |-> runs]

\* the loop of generate_payroll_for_month over the remaining employees:
\* [results, runs]. fails: the employees whose db.execute raises (the
\* database is locked or cannot be written); except Exception catches it as
\* it catches a ValueError of compute_for_employee
RECURSIVE GenerateFrom(_, _, _, _, _, _, _, _, _)
GenerateFrom(emps, adj, att, runs, results, todo, year, month, fails) ==
    IF todo = <<>> THEN [results |-> results, runs |-> runs]
    ELSE LET emp_id == Head(todo)
             out == compute_for_employee(emps, adj, att, emp_id, year, month,
                                         <<emps[emp_id].rate>>)
         IN  IF out.err = "none" /\ emp_id \notin fails
             THEN GenerateFrom(emps, adj, att,
                               InsertRun(runs, emp_id, year, month, out.val),
                               Append(results, out.val), Tail(todo), year, month, fails)
             ELSE GenerateFrom(emps, adj, att, runs, results, Tail(todo), year, month,
                               fails)

generate_payroll_for_month(emps, adj, att, runs, year, month, fails) ==
    GenerateFrom(emps, adj, att, runs, <<>>, ActiveIds(emps, DOMAIN emps), year, month,
                 fails)

-----------------------------------------------------------------------------
(* AttendanceController *)

\* (variant) a correction that rewrites the employee's stored event of the
\* same kind instead of adding a row
InsertAttendanceEditingInPlace(att, id, employee_id, event, ts, corrected_by_hr, note) ==
    LET Same(i) == att[i].employee_id = employee_id /\ att[i].event = event
    IN  IF corrected_by_hr = 1 /\ \E i \in DOMAIN att : Same(i)
        THEN [i \in DOMAIN att |->
                 IF Same(i)
                 THEN [att[i] EXCEPT !.timestamp = ts, !.corrected_by_hr = 1]
                 ELSE att[i]]
        ELSE Append(att, [id |-> id, employee_id |-> employee_id, event |-> event,
                          timestamp |-> ts, corrected_by_hr |-> corrected_by_hr,
                          note |-> note])

\* INSERT INTO attendance (employee_id, event, timestamp, corrected_by_hr, note)
InsertAttendance(att, id, employee_id, event, ts, corrected_by_hr, note) ==
    Append(att, [id |-> id, employee_id |-> employee_id, event |-> event,
                 timestamp |-> ts, corrected_by_hr |-> corrected_by_hr,
                 note |-> note])

\* DELETE FROM attendance WHERE id = ?
DeleteAttendance(att, id) ==
    LET Kept(row) == row.id # id
    IN  SelectSeq(att, Kept)

\* getattr(self.current_user, "is_hr", False): False when no user is set
IsHr(user) == "is_hr" \in DOMAIN user /\ user.is_hr

\* getattr(self.current_user, "employee_id", None): <<>> stands for None
LinkedEmployee(user) ==
    IF "employee_id" \in DOMAIN user THEN user.employee_id ELSE <<>>

\* (variant) a resolution that trusts the id a non-HR user asks for
resolve_target_employee_as_requested(user, requested_eid) ==
    IF IsHr(user)
    THEN IF requested_eid = <<>>
         THEN [err |-> "ValueError", val |-> <<>>]
         ELSE [err |-> "none", val |-> requested_eid]
    ELSE IF LinkedEmployee(user) = <<>>
    THEN [err |-> "PermissionError", val |-> <<>>]
    ELSE [err |-> "none",
          val |-> IF requested_eid # <<>> THEN requested_eid
                  ELSE LinkedEmployee(user)]

\* AttendanceController._resolve_target_employee: requested_eid is <<>> for
\* None, <<id>> otherwise
resolve_target_employee(user, requested_eid) ==
    IF IsHr(user)
    THEN IF requested_eid = <<>>
         THEN [err |-> "ValueError", val |-> <<>>]
         ELSE [err |-> "none", val |-> requested_eid]
    ELSE IF LinkedEmployee(user) = <<>>
    THEN [err |-> "PermissionError", val |-> <<>>]
    ELSE IF requested_eid # <<>> /\ requested_eid # LinkedEmployee(user)
    THEN [err |-> "PermissionError", val |-> <<>>]
    ELSE [err |-> "none", val |-> LinkedEmployee(user)]

\* compute_hours_for_day: timestamp BETWEEN date + "T00:00:00" AND
\* date + "T23:59:59" (text comparison, both ends included) ORDER BY timestamp
QueryDay(att, employee_id, date) ==
    LET Wanted(row) ==
            /\ row.employee_id = employee_id
            /\ ~TextLess(row.timestamp, TS(date[1], date[2], date[3], "T", 0))
            /\ ~TextLess(TS(date[1], date[2], date[3], "T", SecondsPerDay - 1),
                         row.timestamp)
    IN  OrderByTimestamp(SelectSeq(att, Wanted))

\* the pairing loop of compute_hours_for_day: total_seconds += max(0, delta)
RECURSIVE DaySecondsFrom(_, _, _)
DaySecondsFrom(parsed, i, total_seconds) ==
    IF i > Len(parsed) THEN total_seconds
    ELSE IF parsed[i].event = "sign_in"
    THEN LET j == NextSignOut(parsed, i + 1)
             delta == SecondsBetween(parsed[i].timestamp, parsed[j].timestamp)
         IN  IF j <= Len(parsed)
             THEN DaySecondsFrom(parsed, j + 1,
                                 total_seconds + (IF delta > 0 THEN delta ELSE 0))
             ELSE DaySecondsFrom(parsed, i + 1, total_seconds)
    ELSE DaySecondsFrom(parsed, i + 1, total_seconds)

\* the returned dict of compute_hours_for_day, hours in hundredths
compute_hours_for_day(att, employee_id, date) ==
    LET total_seconds == DaySecondsFrom(ParsedRows(QueryDay(att, employee_id, date)), 1, 0)
        hours == HoursField(total_seconds)
    IN  [date           |-> date,
         regular_hours  |-> IF hours < RegularHoursPerDay * 100 THEN hours
                            ELSE RegularHoursPerDay * 100,
         overtime_hours |-> IF hours > RegularHoursPerDay * 100
                            THEN hours - RegularHoursPerDay * 100 ELSE 0,
         total_hours    |-> hours]

-----------------------------------------------------------------------------
(* Inputs of the model *)

Dec30(sec) == TS(2024, 12, 30, "T", sec)

Dec31(sec) == TS(2024, 12, 31, "T", sec)

\* a timestamp typed into the correction prompt with a space for the "T"
Jan1Spaced(sec) == TS(2025, 1, 1, " ", sec)

Hour(h) == h * SecondsPerHour

\* the n-th reading of datetime.now() at sign-in and sign-out: 09:00 on
\* 2024-12-31 and every eight hours from there (January 2025 follows)
NowAt(n) ==
    LET hours == 9 + 8 * (n - 1)
    IN  IF hours < 24 THEN Dec31(Hour(hours))
        ELSE TS(2025, 1, hours \div 24, "T", Hour(hours % 24))

\* what HR types into the correction prompt: a spaced timestamp, and text
\* that does not parse (25:00:00)
CorrectionStamps == {Jan1Spaced(Hour(8)), Dec31(Hour(25))}

EventKinds == {"sign_in", "sign_out", "correction"}

\* what a caller of add_correction passes as event, or HR types at the
\* "Event (sign_in/sign_out/correction)" prompt: any text
EventArgs == EventKinds \cup {"lunch"}

\* ids of the employees table, and an id (3) the table does not hold
EmployeeIds == {1, 2}

ArgEmployeeIds == {1, 2, 3}

Periods == {<<2024, 12>>, <<2025, 1>>}

RateArgs == {NoRate, <<1500>>}

\* the seeded admin account (is_hr = 1, no employee linked)
Admin == [is_hr |-> TRUE, employee_id |-> <<>>]

\* an employee's account
Clerk == [is_hr |-> FALSE, employee_id |-> <<1>>]

\* an account with no employee linked (users.employee_id IS NULL)
Unlinked == [is_hr |-> FALSE, employee_id |-> <<>>]

\* current_user = None: the controller built without a user
NoUser == [none |-> TRUE]

Users == {Admin, Clerk, Unlinked, NoUser}

\* the requested_eid values a caller passes: None or an id
RequestedIds == {<<>>, <<1>>, <<2>>}

Procs == {1, 2}

NoFrame == [none |-> TRUE]

Call(op, args, err, val, sql) ==
    [op |-> op, args |-> args, err |-> err, val |-> val, sql |-> sql]

NoCall == Call("none", <<>>, "none", NoValue, "none")

\* the attendance table after the given (employee_id, event, timestamp,
\* corrected_by_hr) inserts, in that order
RECURSIVE TableOf(_)
TableOf(events) ==
    IF events = <<>> THEN <<>>
    ELSE LET e == events[Len(events)]
         IN  InsertAttendance(TableOf(SubSeq(events, 1, Len(events) - 1)),
                              Len(events), e[1], e[2], e[3], e[4], "")

\* employee 1 works 09:00-17:00 and employee 2 08:00-19:00 on 2024-12-31
HistoryShifts ==
    TableOf(<< <<1, "sign_in", Dec31(Hour(9)), 0>>,
               <<2, "sign_in", Dec31(Hour(8)), 0>>,
               <<1, "sign_out", Dec31(Hour(17)), 0>>,
               <<2, "sign_out", Dec31(Hour(19)), 0>> >>)

\* employee 1 signs in in the last second of 2024 and out at midnight, then
\* works 08:00-12:00:01 on 2025-01-01
HistoryNewYear ==
    TableOf(<< <<1, "sign_in", Dec31(SecondsPerDay - 1), 0>>,
               <<1, "sign_out", TS(2025, 1, 1, "T", 0), 0>>,
               <<1, "sign_in", TS(2025, 1, 1, "T", Hour(8)), 0>>,
               <<1, "sign_out", TS(2025, 1, 1, "T", Hour(12) + 1), 0>> >>)

\* HR records employee 1's shift of 2025-01-01, 08:00-17:00, as corrections
\* typed with a space
HistoryCorrected ==
    TableOf(<< <<1, "sign_in", Jan1Spaced(Hour(8)), 1>>,
               <<1, "sign_out", Jan1Spaced(Hour(17)), 1>> >>)

\* the events the pairing specification builds employee 1's tables from
FnStamps == {Dec30(Hour(9)), Dec31(Hour(8)), Dec31(Hour(9) + 20), Dec31(Hour(17)),
             Dec31(Hour(19))}

FnEvents == {<<1, kind, ts, 0>> : kind \in {"sign_in", "sign_out"}, ts \in FnStamps}

\* every insert order of at most MaxLen such events
FnTables == UNION {[1..n -> FnEvents] : n \in 0..MaxLen}

\* the events the ordering specification builds employee 1's tables from, all
\* of 2024-12-31: a sign-in HR typed with a space (09:30), sign-ins and
\* sign-outs between 08:00 and 10:00 that share timestamps, a sign-out whose
\* text does not parse (25:00:00) and a correction marker
PairEvents ==
    {<<1, "sign_in", TS(2024, 12, 31, " ", Hour(9) + 1800), 1>>,
     <<1, "sign_in", Dec31(Hour(8)), 0>>,
     <<1, "sign_in", Dec31(Hour(9)), 0>>,
     <<1, "sign_out", Dec31(Hour(8)), 0>>,
     <<1, "sign_out", Dec31(Hour(9)), 0>>,
     <<1, "sign_out", Dec31(Hour(10)), 0>>,
     <<1, "sign_out", Dec31(Hour(25)), 1>>,
     <<1, "correction", Dec31(Hour(9)), 1>>}

\* every insert order of at most MaxLen such events
PairTables == UNION {[1..n -> PairEvents] : n \in 0..MaxLen}

\* the attendance tables the payroll specification starts from
Histories == {<<>>, HistoryShifts, HistoryNewYear, HistoryCorrected}

-----------------------------------------------------------------------------
(* The payroll service: one call per step *)

InitTables ==
    /\ adjustments = <<[employee_id |-> 2, year |-> 2024, month |-> 12,
                        amount |-> -5000]>>
    /\ payroll_runs = <<>>
    /\ current_user = Admin
    /\ result = NoCall
    /\ pc = [p \in Procs |-> "idle"]
    /\ frame = [p \in Procs |-> NoFrame]

Init ==
    /\ \E active2 \in BOOLEAN :
          employees = (1 :> [full_name |-> "A", rate |-> 2000, active |-> TRUE])
                   @@ (2 :> [full_name |-> "B", rate |-> 1000, active |-> active2])
    /\ attendance \in Histories
    /\ next_attendance_id = Len(attendance) + 1
    /\ InitTables

\* AttendanceController.sign_in
SignIn(employee_id) ==
    /\ next_attendance_id <= MaxEvents
    /\ attendance' = InsertAttendance(attendance, next_attendance_id, employee_id,
                                      "sign_in", NowAt(next_attendance_id), 0, "")
    /\ next_attendance_id' = next_attendance_id + 1
    /\ result' = Call("sign_in", <<employee_id>>, "none",
                      [ts |-> NowAt(next_attendance_id)], "insert")
    /\ UNCHANGED <<employees, adjustments, payroll_runs, current_user, pc, frame>>

\* AttendanceController.sign_out
SignOut(employee_id) ==
    /\ next_attendance_id <= MaxEvents
    /\ attendance' = InsertAttendance(attendance, next_attendance_id, employee_id,
                                      "sign_out", NowAt(next_attendance_id), 0, "")
    /\ next_attendance_id' = next_attendance_id + 1
    /\ result' = Call("sign_out", <<employee_id>>, "none",
                      [ts |-> NowAt(next_attendance_id)], "insert")
    /\ UNCHANGED <<employees, adjustments, payroll_runs, current_user, pc, frame>>

\* AttendanceController.add_correction
AddCorrection(employee_id, ts, event) ==
    /\ next_attendance_id <= MaxEvents
    /\ IF IsHr(current_user)
       THEN /\ attendance' = InsertAttendance(attendance, next_attendance_id,
                                              employee_id, event, ts, 1, "")
            /\ next_attendance_id' = next_attendance_id + 1
            /\ result' = Call("add_correction", <<employee_id, ts, event>>, "none",
                              NoValue, "insert")
       ELSE /\ result' = Call("add_correction", <<employee_id, ts, event>>,
                              "PermissionError", NoValue, "none")
            /\ UNCHANGED <<attendance, next_attendance_id>>
    /\ UNCHANGED <<employees, adjustments, payroll_runs, current_user, pc, frame>>

\* AttendanceController.delete_record
DeleteRecord(attendance_id) ==
    /\ IF IsHr(current_user)
       THEN /\ attendance' = DeleteAttendance(attendance, attendance_id)
            /\ result' = Call("delete_record", <<attendance_id>>, "none", NoValue, "delete")
       ELSE /\ result' = Call("delete_record", <<attendance_id>>, "PermissionError",
                              NoValue, "none")
            /\ UNCHANGED attendance
    /\ UNCHANGED <<employees, adjustments, next_attendance_id, payroll_runs,
                   current_user, pc, frame>>

\* PayrollService._aggregate_hours_by_day: the rows the query returns and the
\* mapping built from them
AggregateHours(employee_id, year, month) ==
    /\ result' = Call("aggregate", <<employee_id, year, month>>, "none",
                      [rows |-> QueryMonth(attendance, employee_id, year, month),
                       day_hours |-> aggregate_hours_by_day(attendance, employee_id,
                                                            year, month)],
                      "none")
    /\ UNCHANGED <<employees, adjustments, attendance, next_attendance_id,
                   payroll_runs, current_user, pc, frame>>

\* AttendanceController.compute_hours_for_day
HoursForDay(employee_id, date) ==
    /\ result' = Call("hours_for_day", <<employee_id, date>>, "none",
                      compute_hours_for_day(attendance, employee_id, date), "none")
    /\ UNCHANGED <<employees, adjustments, attendance, next_attendance_id,
                   payroll_runs, current_user, pc, frame>>

\* (variant) compute_for_employee storing what it computed
ComputeEffectStoring(runs, out, employee_id, year, month) ==
    IF out.err = "none" THEN InsertRun(runs, employee_id, year, month, out.val)
    ELSE runs

\* what the body of compute_for_employee does to the tables: it only reads
ComputeEffect(runs, out, employee_id, year, month) == runs

\* PayrollService.compute_for_employee
Compute(employee_id, year, month, hourly_rate) ==
    LET out == compute_for_employee(employees, adjustments, attendance,
                                    employee_id, year, month, hourly_rate)
    IN  /\ result' = Call("compute", <<employee_id, year, month, hourly_rate>>,
                          out.err, out.val, "none")
        /\ payroll_runs' = ComputeEffect(payroll_runs, out, employee_id, year, month)
        /\ UNCHANGED <<employees, adjustments, attendance, next_attendance_id,
                       current_user, pc, frame>>

\* PayrollService.persist_for_employee
Persist(employee_id, year, month, hourly_rate) ==
    LET done == persist_for_employee(employees, adjustments, attendance, payroll_runs,
                                     employee_id, year, month, hourly_rate)
    IN  /\ Len(done.runs) <= MaxRuns
        /\ payroll_runs' = done.runs
        /\ result' = Call("persist", <<employee_id, year, month, hourly_rate>>,
                          done.out.err, done.out.val, done.sql)
        /\ UNCHANGED <<employees, adjustments, attendance, next_attendance_id,
                       current_user, pc, frame>>

\* PayrollService.generate_payroll_for_month
Generate(year, month, fails) ==
    LET done == generate_payroll_for_month(employees, adjustments, attendance,
                                           payroll_runs, year, month, fails)
    IN  /\ Len(done.runs) <= MaxRuns
        /\ payroll_runs' = done.runs
        /\ result' = Call("generate", <<year, month, fails>>, "none", done.results,
                          IF done.results = <<>> THEN "none" ELSE "insert")
        /\ UNCHANGED <<employees, adjustments, attendance, next_attendance_id,
                       current_user, pc, frame>>

Next ==
    \/ \E e \in EmployeeIds, p \in Periods : AggregateHours(e, p[1], p[2])
    \/ \E e \in ArgEmployeeIds, p \in Periods, r \in RateArgs :
          Compute(e, p[1], p[2], r)
    \/ \E e \in ArgEmployeeIds, p \in Periods, r \in RateArgs :
          Persist(e, p[1], p[2], r)
    \/ \E p \in Periods, fails \in SUBSET EmployeeIds : Generate(p[1], p[2], fails)

Spec == Init /\ [][Next]_vars

-----------------------------------------------------------------------------
(* The order of reading and the pairing over every table of at most MaxLen
   events of employee 1 that share timestamps, are typed by HR or are not
   sign-ins or sign-outs *)

InitPair ==
    /\ employees = (1 :> [full_name |-> "A", rate |-> 2000, active |-> TRUE])
    /\ \E events \in PairTables : attendance = TableOf(events)
    /\ next_attendance_id = Len(attendance) + 1
    /\ InitTables

NextPair ==
    \/ AggregateHours(1, 2024, 12)
    \/ HoursForDay(1, <<2024, 12, 31>>)

SpecPair == InitPair /\ [][NextPair]_vars

-----------------------------------------------------------------------------
(* Requests as they arrive: the payroll menu of PayrollController and the
   service called directly, for the months a caller can type *)

\* December, and two numbers that are no month
RequestMonths == {0, 12, 13}

InitRequest ==
    /\ employees = (1 :> [full_name |-> "A", rate |-> 2000, active |-> TRUE])
                @@ (2 :> [full_name |-> "B", rate |-> 1000, active |-> TRUE])
    /\ adjustments = <<[employee_id |-> 2, year |-> 2024, month |-> 12,
                        amount |-> -5000]>>
    /\ attendance = HistoryShifts
    /\ next_attendance_id = Len(attendance) + 1
    /\ payroll_runs = <<>>
    /\ current_user \in {Admin, Clerk}
    /\ result = NoCall
    /\ pc = [p \in Procs |-> "idle"]
    /\ frame = [p \in Procs |-> NoFrame]

\* handle_payroll, choice 1: Generate payroll for month (persist)
MenuGenerate(year, month, confirm, fails) ==
    LET done == generate_payroll_for_month(employees, adjustments, attendance,
                                           payroll_runs, year, month, fails)
        args == <<year, month, confirm, fails>>
    IN  /\ Len(done.runs) <= MaxRuns
        /\ IF ~IsHr(current_user)
           THEN /\ result' = Call("menu_generate", args, "PermissionError", NoValue, "none")
                /\ UNCHANGED payroll_runs
           ELSE IF month \notin 1..12
           THEN /\ result' = Call("menu_generate", args, "Month must be 1-12", NoValue,
                                  "none")
                /\ UNCHANGED payroll_runs
           ELSE IF ~confirm
           THEN /\ result' = Call("menu_generate", args, "Cancelled", NoValue, "none")
                /\ UNCHANGED payroll_runs
           ELSE /\ result' = Call("menu_generate", args, "none", done.results,
                                  IF done.results = <<>> THEN "none" ELSE "insert")
                /\ payroll_runs' = done.runs
        /\ UNCHANGED <<employees, adjustments, attendance, next_attendance_id,
                       current_user, pc, frame>>

\* handle_payroll, choice 2: View payroll for employee (compute, do not persist)
MenuView(employee_id, year, month) ==
    LET out == compute_for_employee(employees, adjustments, attendance,
                                    employee_id, year, month, NoRate)
        args == <<employee_id, year, month>>
    IN  /\ IF ~IsHr(current_user)
           THEN result' = Call("menu_view", args, "PermissionError", NoValue, "none")
           ELSE result' = Call("menu_view", args, out.err, out.val, "none")
        /\ UNCHANGED <<employees, adjustments, attendance, next_attendance_id,
                       payroll_runs, current_user, pc, frame>>

\* PayrollService.export_monthly_csv: generate, then write the results
export_monthly_csv(emps, adj, att, runs, year, month, fails) ==
    LET done == generate_payroll_for_month(emps, adj, att, runs, year, month, fails)
    IN  IF done.results = <<>>
        THEN [err |-> "ValueError", csv |-> NoValue, runs |-> done.runs]
        ELSE [err |-> "none", csv |-> done.results, runs |-> done.runs]

\* handle_payroll, choice 3: Export CSV
MenuExport(year, month, fails) ==
    LET done == export_monthly_csv(employees, adjustments, attendance, payroll_runs,
                                   year, month, fails)
        args == <<year, month, fails>>
    IN  /\ Len(done.runs) <= MaxRuns
        /\ IF ~IsHr(current_user)
           THEN /\ result' = Call("menu_export", args, "PermissionError", NoValue, "none")
                /\ UNCHANGED payroll_runs
           ELSE /\ result' = Call("menu_export", args, done.err, done.csv,
                                  IF done.runs = payroll_runs THEN "none" ELSE "insert")
                /\ payroll_runs' = done.runs
        /\ UNCHANGED <<employees, adjustments, attendance, next_attendance_id,
                       current_user, pc, frame>>

NextRequest ==
    \/ \E m \in RequestMonths, confirm \in BOOLEAN, fails \in SUBSET EmployeeIds :
          MenuGenerate(2024, m, confirm, fails)
    \/ \E e \in ArgEmployeeIds, m \in RequestMonths : MenuView(e, 2024, m)
    \/ \E m \in RequestMonths, fails \in SUBSET EmployeeIds : MenuExport(2024, m, fails)
    \/ \E e \in EmployeeIds, m \in RequestMonths : Compute(e, 2024, m, NoRate)
    \/ \E e \in EmployeeIds, m \in RequestMonths : Persist(e, 2024, m, NoRate)
    \/ \E m \in RequestMonths : Generate(2024, m, {})

SpecRequest == InitRequest /\ [][NextRequest]_vars

-----------------------------------------------------------------------------
(* The pairing and the overtime split over every table of at most MaxLen
   events of employee 1: the calls read, nothing is written *)

InitFn ==
    /\ employees = (1 :> [full_name |-> "A", rate |-> 2000, active |-> TRUE])
    /\ \E events \in FnTables : attendance = TableOf(events)
    /\ next_attendance_id = Len(attendance) + 1
    /\ InitTables

NextFn ==
    \/ AggregateHours(1, 2024, 12)
    \/ Compute(1, 2024, 12, NoRate)
    \/ \E d \in {30, 31} : HoursForDay(1, <<2024, 12, d>>)

SpecFn == InitFn /\ [][NextFn]_vars

-----------------------------------------------------------------------------
(* The attendance controller: the log grows by sign-ins, sign-outs and HR's
   corrections, up to MaxEvents rows *)

InitAttendance ==
    /\ employees = (1 :> [full_name |-> "A", rate |-> 2000, active |-> TRUE])
                @@ (2 :> [full_name |-> "B", rate |-> 1000, active |-> FALSE])
    /\ adjustments = <<>>
    /\ attendance = <<>>
    /\ next_attendance_id = 1
    /\ payroll_runs = <<>>
    /\ current_user \in Users
    /\ result = NoCall
    /\ pc = [p \in Procs |-> "idle"]
    /\ frame = [p \in Procs |-> NoFrame]

\* (variant) the payroll update run before the sign-out is stored
menu_sign_out_persist_first(emps, adj, att, runs, id, eid, ts, fails) ==
    LET done == persist_for_employee(emps, adj, att, runs, eid, ts.y, ts.mo, NoRate)
    IN  [attendance |-> InsertAttendance(att, id, eid, "sign_out", ts, 0, ""),
         runs       |-> IF fails THEN runs ELSE done.runs,
         persisted  |-> ~fails /\ done.out.err = "none"]

\* handle_attendance, choice 2, from self.sign_out(eid, note) on: the row is
\* stored, then persist_for_employee(eid, dt.year, dt.month) runs inside
\* try / except Exception: pass. fails: a statement of the persist raises
\* (the database is locked or cannot be written)
menu_sign_out(emps, adj, att, runs, id, eid, ts, fails) ==
    LET stored == InsertAttendance(att, id, eid, "sign_out", ts, 0, "")
        done   == persist_for_employee(emps, adj, stored, runs, eid, ts.y, ts.mo, NoRate)
    IN  [attendance |-> stored,
         runs       |-> IF fails THEN runs ELSE done.runs,
         persisted  |-> ~fails /\ done.out.err = "none"]

\* the employee a menu choice acts on: the id HR types, or the employee
\* linked to the user
TargetEmployee(user, typed) ==
    IF IsHr(user) THEN [err |-> "none", val |-> <<typed>>]
    ELSE resolve_target_employee(user, <<>>)

\* handle_attendance, choice 2: Sign out
MenuSignOut(typed, fails) ==
    LET target == TargetEmployee(current_user, typed)
        eid    == target.val[1]
        ts     == NowAt(next_attendance_id)
        done   == menu_sign_out(employees, adjustments, attendance, payroll_runs,
                                next_attendance_id, eid, ts, fails)
    IN  /\ next_attendance_id <= MaxEvents
        /\ IF target.err # "none"
           THEN /\ result' = Call("menu_sign_out", <<0, fails>>, target.err,
                                  NoValue, "none")
                /\ UNCHANGED <<attendance, next_attendance_id, payroll_runs>>
           ELSE /\ Len(done.runs) <= MaxRuns
                /\ attendance' = done.attendance
                /\ next_attendance_id' = next_attendance_id + 1
                /\ payroll_runs' = done.runs
                /\ result' = Call("menu_sign_out", <<eid, fails>>, "none",
                                  [ts |-> ts, persisted |-> done.persisted],
                                  IF done.persisted THEN "upsert" ELSE "insert")
        /\ UNCHANGED <<employees, adjustments, current_user, pc, frame>>

\* AttendanceController._resolve_target_employee called for the current user
ResolveTarget(requested_eid) ==
    LET out == resolve_target_employee(current_user, requested_eid)
    IN  /\ result' = Call("resolve_target", <<requested_eid>>, out.err,
                          [employee_id |-> out.val], "none")
        /\ UNCHANGED <<employees, adjustments, attendance, next_attendance_id,
                       payroll_runs, current_user, pc, frame>>

NextAttendance ==
    \/ \E e \in EmployeeIds : SignIn(e)
    \/ \E e \in EmployeeIds : SignOut(e)
    \/ \E e \in EmployeeIds, fails \in BOOLEAN : MenuSignOut(e, fails)
    \/ \E ts \in CorrectionStamps, ev \in EventArgs : AddCorrection(1, ts, ev)
    \/ \E id \in 1..MaxEvents : DeleteRecord(id)
    \/ HoursForDay(1, <<2024, 12, 31>>)
    \/ Compute(1, 2024, 12, NoRate)
    \/ Persist(1, 2024, 12, NoRate)
    \/ Generate(2024, 12, {})
    \/ \E requested \in RequestedIds : ResolveTarget(requested)

SpecAttendance == InitAttendance /\ [][NextAttendance]_vars

-----------------------------------------------------------------------------
(* persist_for_employee statement by statement, for callers that share the
   database file: every db.fetchone / db.execute opens its own connection
   and commits on its own, SQLite runs the statements one at a time *)

InitConc ==
    /\ employees = (1 :> [full_name |-> "A", rate |-> 2000, active |-> TRUE])
                @@ (2 :> [full_name |-> "B", rate |-> 1000, active |-> FALSE])
    /\ attendance = HistoryShifts
    /\ next_attendance_id = Len(attendance) + 1
    /\ InitTables

\* the callers between their first statement and their last
InFlight == {p \in Procs : pc[p] # "idle"}

\* pr = self.compute_for_employee(...): a ValueError ends the call
PersistCompute(p, employee_id, year, month, hourly_rate) ==
    LET out == compute_for_employee(employees, adjustments, attendance,
                                    employee_id, year, month, hourly_rate)
    IN  /\ pc[p] = "idle"
        /\ Len(payroll_runs) + Cardinality(InFlight) < MaxRuns
        /\ IF out.err = "none"
           THEN /\ pc' = [pc EXCEPT ![p] = "select"]
                /\ frame' = [frame EXCEPT ![p] =
                                [employee_id |-> employee_id, year |-> year,
                                 month |-> month, hourly_rate |-> hourly_rate,
                                 pr |-> out.val, exists |-> {}, sql |-> "none"]]
                /\ UNCHANGED result
           ELSE /\ result' = Call("persist", <<employee_id, year, month, hourly_rate>>,
                                  out.err, out.val, "none")
                /\ frame' = [frame EXCEPT ![p] = NoFrame]
                /\ UNCHANGED pc
        /\ UNCHANGED <<employees, adjustments, attendance, next_attendance_id,
                       payroll_runs, current_user>>

\* exists = self.db.fetchone("SELECT id FROM payroll_runs WHERE ...")
PersistSelect(p) ==
    /\ pc[p] = "select"
    /\ pc' = [pc EXCEPT ![p] = "write"]
    /\ frame' = [frame EXCEPT ![p].exists =
                    RunsFor(payroll_runs, frame[p].employee_id, frame[p].year,
                            frame[p].month)]
    /\ UNCHANGED <<employees, adjustments, attendance, next_attendance_id,
                   payroll_runs, current_user, result>>

\* if exists: UPDATE ... WHERE id = ?   else: INSERT INTO payroll_runs ...
PersistWrite(p) ==
    /\ pc[p] = "write"
    /\ payroll_runs' = UpsertRun(payroll_runs, frame[p].exists, frame[p].employee_id,
                                 frame[p].year, frame[p].month, frame[p].pr)
    /\ pc' = [pc EXCEPT ![p] = "idle"]
    /\ frame' = [frame EXCEPT ![p].sql =
                    IF frame[p].exists = {} THEN "insert" ELSE "update"]
    /\ result' = Call("persist", <<frame[p].employee_id, frame[p].year, frame[p].month,
                                    frame[p].hourly_rate>>,
                      "none", frame[p].pr,
                      IF frame[p].exists = {} THEN "insert" ELSE "update")
    /\ UNCHANGED <<employees, adjustments, attendance, next_attendance_id,
                   current_user>>

NextConc ==
    \/ \E p \in Procs, e \in EmployeeIds, period \in Periods, r \in RateArgs :
          PersistCompute(p, e, period[1], period[2], r)
    \/ \E p \in Procs : PersistSelect(p)
    \/ \E p \in Procs : PersistWrite(p)

SpecConc == InitConc /\ [][NextConc]_vars

-----------------------------------------------------------------------------
(* Properties of the payroll service, checked under Spec *)

Keys == ArgEmployeeIds \X Periods

RunsOfKey(runs, k) == RunsFor(runs, k[1], k[2][1], k[2][2])

\* C1: after any sequence of persist_for_employee and
\* generate_payroll_for_month calls, payroll_runs holds at most one row per
\* (employee_id, year, month).
OneRunPerKey ==
    \A k \in Keys : Cardinality(RunsOfKey(payroll_runs, k)) <= 1

\* the last call was a successful persist_for_employee
Persisted == result.op = "persist" /\ result.err = "none"

\* the key a compute / persist call was made for
CallKey(call) == <<call.args[1], <<call.args[2], call.args[3]>> >>

\* row i of payroll_runs holds exactly the values the call returned
RowHolds(runs, i, pr) ==
    /\ runs[i].regular_hours = pr.regular_hours
    /\ runs[i].overtime_hours = pr.overtime_hours
    /\ runs[i].hourly_rate = pr.hourly_rate
    /\ runs[i].gross_pay = pr.gross
    /\ runs[i].total_adjustments = pr.adjustments
    /\ runs[i].net_pay = pr.net

\* C2: from a state with at most one row for the key, a persist_for_employee
\* call leaves exactly one row for it, holding the values the call returned;
\* and when it repeats the call made just before (same arguments, nothing
\* changed in between) the table is left as the first call left it.
PersistIdempotent ==
    [][(result'.op = "persist" /\ result'.err = "none"
          /\ Cardinality(RunsOfKey(payroll_runs, CallKey(result'))) <= 1)
        => /\ Cardinality(RunsOfKey(payroll_runs', CallKey(result'))) = 1
           /\ \A i \in RunsOfKey(payroll_runs', CallKey(result')) :
                 RowHolds(payroll_runs', i, result'.val)
           /\ (Persisted /\ result.args = result'.args)
                 => (payroll_runs' = payroll_runs /\ result'.val = result.val)]_vars

\* C2 witness: a second persist for a key (the UPDATE path) has run and the
\* key's single row holds what it returned.
PersistedTwice ==
    /\ Persisted
    /\ result.sql = "update"
    /\ Len(payroll_runs) = 1
    /\ RunsOfKey(payroll_runs, CallKey(result)) = {1}
    /\ RowHolds(payroll_runs, 1, result.val)
    /\ result.val.gross > 0

\* C4: the store rejects an INSERT into payroll_runs for a key that already
\* has a row: no step adds a row to a key that has one.
InsertOfExistingKeyRejected ==
    [][\A k \in Keys :
          RunsOfKey(payroll_runs, k) # {}
            => Cardinality(RunsOfKey(payroll_runs', k))
                 = Cardinality(RunsOfKey(payroll_runs, k))]_vars

\* C7: compute_for_employee returns gross = the cent nearest to
\* regular*rate + overtime*rate*1.5, adjustments = the period's sum, tax = the
\* cent nearest to 15% of gross + adjustments and net = gross + adjustments -
\* tax; 8h at 20.00 without adjustment give 160.00 / 24.00 / 136.00 and 8h +
\* 3h at 10.00 with -50.00 give 125.00 / 11.25 / 63.75.
Abs(x) == IF x < 0 THEN -x ELSE x

PayrollArithmetic ==
    (result.op = "compute" /\ result.err = "none") =>
        LET pr       == result.val
            day_hrs  == aggregate_hours_by_day(attendance, result.args[1],
                                               result.args[2], result.args[3])
            regular  == regular_seconds(day_hrs)
            overtime == overtime_seconds(day_hrs)
            adjusted == sum_adjustments(adjustments, result.args[1],
                                        result.args[2], result.args[3])
        IN  /\ Abs(pr.gross * 7200 - (regular * pr.hourly_rate * 2
                                      + overtime * pr.hourly_rate * 3)) <= 3600
            /\ pr.adjustments = adjusted
            /\ Abs(pr.tax * 100 - (pr.gross + pr.adjustments) * 15) <= 50
            /\ pr.net = pr.gross + pr.adjustments - pr.tax
            /\ (regular = 28800 /\ overtime = 0 /\ pr.hourly_rate = 2000 /\ adjusted = 0)
                  => (pr.gross = 16000 /\ pr.tax = 2400 /\ pr.net = 13600)
            /\ (regular = 28800 /\ overtime = 10800 /\ pr.hourly_rate = 1000
                  /\ adjusted = -5000)
                  => (pr.gross = 12500 /\ pr.tax = 1125 /\ pr.net = 6375)

\* C7 witness: the 11-hour day at 10.00 with the -50.00 adjustment was computed.
ElevenHourScenarioComputed ==
    /\ result.op = "compute"
    /\ result.args = <<2, 2024, 12, NoRate>>
    /\ result.err = "none"
    /\ result.val.regular_hours = 800
    /\ result.val.overtime_hours = 300
    /\ result.val.gross = 12500
    /\ result.val.tax = 1125
    /\ result.val.net = 6375

\* C8: a stored event is read for a period exactly when its time lies in that
\* calendar month (from the first instant of the month up to, not including,
\* the first instant of the next).
MonthWindowIsCalendarMonth ==
    result.op = "aggregate" =>
        \A i \in DOMAIN attendance :
            (attendance[i].employee_id = result.args[1] /\ Parses(attendance[i].timestamp))
              => ((\E j \in DOMAIN result.val.rows : result.val.rows[j] = attendance[i])
                    <=> (/\ attendance[i].timestamp.y = result.args[2]
                         /\ attendance[i].timestamp.mo = result.args[3]))

\* C9: compute_for_employee and persist_for_employee for an employee that is
\* missing or inactive raise ValueError, with or without an explicit
\* hourly_rate, and payroll_runs is left as it was.
NotFoundWritesNothing ==
    [][(result'.op \in {"compute", "persist"}
          /\ ~ActiveEmployee(employees, result'.args[1]))
        => (result'.err = "ValueError" /\ payroll_runs' = payroll_runs)]_vars

\* C9 witness: a persist with an explicit rate for the inactive employee 2
\* has failed while the table holds a row of employee 1.
InactivePersistRefused ==
    /\ result.op = "persist"
    /\ result.args[1] = 2
    /\ result.args[4] # NoRate
    /\ ~ActiveEmployee(employees, 2)
    /\ result.err = "ValueError"
    /\ Len(payroll_runs) = 1

\* C10: compute_for_employee leaves the attendance, employees, adjustments and
\* payroll_runs tables as they were, whether it returns or raises.
ComputeReadsOnly ==
    [][result'.op = "compute" => UNCHANGED store]_vars

\* C10 witness: a compute has returned a payroll while runs are stored.
ComputedBesideStoredRuns ==
    /\ result.op = "compute"
    /\ result.err = "none"
    /\ result.val.gross > 0
    /\ payroll_runs # <<>>

\* C11: generate_payroll_for_month handles every active employee on its own:
\* when computing or storing fails for some of them the call still returns,
\* every other active employee has a result and a payroll_runs row for
\* (employee, year, month) afterwards, and a failed or inactive employee gets
\* no result and no new row.
GenerateToleratesFailure ==
    [][result'.op = "generate" =>
          /\ result'.err = "none"
          /\ \A e \in DOMAIN employees :
                IF employees[e].active /\ e \notin result'.args[3]
                THEN /\ \E i \in DOMAIN result'.val : result'.val[i].employee_id = e
                     /\ RunsFor(payroll_runs', e, result'.args[1], result'.args[2]) # {}
                ELSE /\ \A i \in DOMAIN result'.val : result'.val[i].employee_id # e
                     /\ Cardinality(RunsFor(payroll_runs', e, result'.args[1],
                                            result'.args[2]))
                          = Cardinality(RunsFor(payroll_runs, e, result'.args[1],
                                                result'.args[2]))]_vars

\* C11 witness: storing failed for employee 1 and the batch went on to
\* employee 2, whose payroll was returned and stored.
BatchWentOnAfterFailure ==
    /\ result.op = "generate"
    /\ result.args[3] = {1}
    /\ employees[2].active
    /\ Len(result.val) = 1
    /\ result.val[1].employee_id = 2
    /\ RunsFor(payroll_runs, 2, result.args[1], result.args[2]) # {}
    /\ RunsFor(payroll_runs, 1, result.args[1], result.args[2]) = {}

\* C13: for an active employee whose events of the month pair to nothing (or
\* who has none), compute_for_employee returns a complete result: regular
\* hours, overtime hours and gross are 0, adjustments is the period's sum, tax
\* the cent nearest to 15% of it and net the rest.
ZeroHoursComputed ==
    (/\ result.op = "compute"
     /\ ActiveEmployee(employees, result.args[1])
     /\ DOMAIN aggregate_hours_by_day(attendance, result.args[1], result.args[2],
                                      result.args[3]) = {})
      => /\ result.err = "none"
         /\ result.val.regular_hours = 0
         /\ result.val.overtime_hours = 0
         /\ result.val.gross = 0
         /\ result.val.adjustments = sum_adjustments(adjustments, result.args[1],
                                                     result.args[2], result.args[3])
         /\ Abs(result.val.tax * 100 - result.val.adjustments * 15) <= 50
         /\ result.val.net = result.val.adjustments - result.val.tax

\* C13 witness: employee 2, with the -50.00 adjustment of 2024-12 and no
\* event of its own in a table that holds events, was computed: tax -7.50,
\* net -42.50.
AdjustmentsOnlyComputed ==
    /\ result.op = "compute"
    /\ result.args = <<2, 2024, 12, NoRate>>
    /\ attendance # <<>>
    /\ \A i \in DOMAIN attendance : attendance[i].employee_id # 2
    /\ result.err = "none"
    /\ result.val.gross = 0
    /\ result.val.adjustments = -5000
    /\ result.val.tax = -750
    /\ result.val.net = -4250

-----------------------------------------------------------------------------
(* Properties of requests, checked under SpecRequest *)

\* the month a payroll request was made for
RequestMonth(call) ==
    IF call.op \in {"compute", "persist", "menu_view"} THEN call.args[3]
    ELSE call.args[2]

\* C12: a payroll request (compute, persist, generate, or the menu choices
\* that call them) for a month below 1 or above 12 returns an error,
\* produces no payroll result and writes no payroll_runs row.
OutOfRangeMonthRejected ==
    [][(/\ result'.op \in {"compute", "persist", "generate", "menu_generate",
                           "menu_view", "menu_export"}
        /\ RequestMonth(result') \notin 1..12)
          => (/\ result'.err # "none"
              /\ result'.val = NoValue
              /\ payroll_runs' = payroll_runs)]_vars

-----------------------------------------------------------------------------
(* Properties of the pairing and of the overtime split, checked under SpecFn *)

\* sign_in and sign_out strictly alternate and the timestamps increase
Alternating(rows) ==
    /\ \A k \in DOMAIN rows : rows[k].event \in {"sign_in", "sign_out"}
    /\ \A k \in DOMAIN rows : Parses(rows[k].timestamp)
    /\ \A k \in 1..(Len(rows) - 1) :
          /\ rows[k].event # rows[k + 1].event
          /\ SecondsBetween(rows[k].timestamp, rows[k + 1].timestamp) > 0

\* the positions of the sign_ins that the next row signs out
MatchedSignIns(rows) ==
    {k \in 1..(Len(rows) - 1) : rows[k].event = "sign_in"}

RECURSIVE PairSeconds(_, _)
PairSeconds(rows, ks) ==
    IF ks = {} THEN 0
    ELSE LET k == CHOOSE x \in ks : TRUE
         IN  SecondsBetween(rows[k].timestamp, rows[k + 1].timestamp)
               + PairSeconds(rows, ks \ {k})

\* each date with a matched sign_in |-> the sum of its pairs
PairedHours(rows) ==
    [d \in {DateOf(rows[k].timestamp) : k \in MatchedSignIns(rows)} |->
        PairSeconds(rows, {k \in MatchedSignIns(rows) : DateOf(rows[k].timestamp) = d})]

\* C5: for an event list in which sign_in and sign_out strictly alternate
\* with increasing timestamps, _aggregate_hours_by_day gives each date the sum
\* of (sign_out - sign_in) over the matched pairs whose sign_in falls on it, an
\* unmatched sign_in adds nothing, and an empty list or a list of sign_ins
\* only gives the empty mapping.
AlternatingListsSumPairs ==
    result.op = "aggregate" =>
        /\ Alternating(result.val.rows)
              => result.val.day_hours = PairedHours(result.val.rows)
        /\ (\A k \in DOMAIN result.val.rows : result.val.rows[k].event = "sign_in")
              => DOMAIN result.val.day_hours = {}

\* C5 witness: an alternating list of four events put two pairs
\* (08:00:00-09:00:20 and 17:00-19:00) on 2024-12-31, 10820 seconds together.
TwoPairsOnOneDay ==
    /\ result.op = "aggregate"
    /\ Len(result.val.rows) = 4
    /\ Alternating(result.val.rows)
    /\ DOMAIN result.val.day_hours = {<<2024, 12, 31>>}
    /\ result.val.day_hours[<<2024, 12, 31>>] = 10820

RECURSIVE SumOverDays(_, _)
SumOverDays(f, days) ==
    IF days = {} THEN 0
    ELSE LET d == CHOOSE x \in days : TRUE
         IN  f[d] + SumOverDays(f, days \ {d})

Min(a, b) == IF a < b THEN a ELSE b

Max(a, b) == IF a > b THEN a ELSE b

\* hundredths of hours nearest to a number of seconds
Hundredths(secs, h) == Abs(h * 36 - secs) <= 18

\* C6: compute_for_employee's regular_hours is the sum over days of min(8, h)
\* and overtime_hours the sum over days of max(0, h - 8): together they are
\* the total hours, and only days above eight hours add overtime;
\* compute_hours_for_day splits its one day the same way.
OvertimePerDay ==
    /\ (result.op = "compute" /\ result.err = "none") =>
          LET day_hrs  == aggregate_hours_by_day(attendance, result.args[1],
                                                 result.args[2], result.args[3])
              days     == DOMAIN day_hrs
              regular  == SumOverDays([d \in days |-> Min(28800, day_hrs[d])], days)
              overtime == SumOverDays([d \in days |-> Max(0, day_hrs[d] - 28800)], days)
              total    == SumOverDays(day_hrs, days)
          IN  /\ Hundredths(regular, result.val.regular_hours)
              /\ Hundredths(overtime, result.val.overtime_hours)
              /\ Abs((result.val.regular_hours + result.val.overtime_hours) * 36
                       - total) <= 36
              /\ (\A d \in days : day_hrs[d] % 36 = 0)
                    => (result.val.regular_hours + result.val.overtime_hours) * 36 = total
              /\ (\A d \in days : day_hrs[d] <= 28800) => result.val.overtime_hours = 0
    /\ result.op = "hours_for_day" =>
          /\ result.val.regular_hours = Min(800, result.val.total_hours)
          /\ result.val.overtime_hours = Max(0, result.val.total_hours - 800)
          /\ result.val.regular_hours + result.val.overtime_hours = result.val.total_hours

\* C6 witness: a month of 23 hours on 2024-12-30 and 7:59:40 on 2024-12-31
\* was computed: 15.99 regular hours, and 15 of overtime that all come from
\* the 30th.
LongDayAndFullDayComputed ==
    /\ result.op = "compute"
    /\ result.err = "none"
    /\ aggregate_hours_by_day(attendance, 1, 2024, 12)
          = (<<2024, 12, 30>> :> 82800) @@ (<<2024, 12, 31>> :> 28780)
    /\ result.val.regular_hours = 1599
    /\ result.val.overtime_hours = 1500

-----------------------------------------------------------------------------
(* Properties of concurrent callers, checked under SpecConc *)

\* C3: the existence check and the write of persist_for_employee are atomic:
\* two callers persisting the same (employee_id, year, month) never both see
\* no row and both insert, and a caller that has finished leaves exactly one
\* row for its key.
UpsertAtomic ==
    /\ \A p \in Procs, q \in Procs :
          (/\ p # q
           /\ pc[p] = "idle" /\ pc[q] = "idle"
           /\ frame[p] # NoFrame /\ frame[q] # NoFrame
           /\ frame[p].employee_id = frame[q].employee_id
           /\ frame[p].year = frame[q].year
           /\ frame[p].month = frame[q].month)
             => ~(frame[p].sql = "insert" /\ frame[q].sql = "insert")
    /\ \A p \in Procs :
          (pc[p] = "idle" /\ frame[p] # NoFrame)
             => Cardinality(RunsFor(payroll_runs, frame[p].employee_id,
                                    frame[p].year, frame[p].month)) = 1

\* the sign_out of row k + 1 falls on the day after the sign_in of row k
CrossesMidnight(rows, k) ==
    DayNumber(rows[k + 1].timestamp.y, rows[k + 1].timestamp.mo, rows[k + 1].timestamp.d)
      = DayNumber(rows[k].timestamp.y, rows[k].timestamp.mo, rows[k].timestamp.d) + 1

\* the month's rows of the last call, in the order read
MonthRows == QueryMonth(attendance, result.args[1], result.args[2], result.args[3])

\* C17: a shift that crosses midnight inside the month is credited in full to
\* the day of its sign_in and not to the next day (a day's bucket holds only
\* pairs whose sign_in is on that day), and what it has above eight hours is
\* overtime of the day it started.
OvernightOnStartDay ==
    /\ (result.op = "aggregate" /\ Alternating(result.val.rows)) =>
          \A k \in MatchedSignIns(result.val.rows) :
              CrossesMidnight(result.val.rows, k) =>
                  /\ DateOf(result.val.rows[k].timestamp) \in DOMAIN result.val.day_hours
                  /\ result.val.day_hours[DateOf(result.val.rows[k].timestamp)]
                       >= SecondsBetween(result.val.rows[k].timestamp,
                                         result.val.rows[k + 1].timestamp)
                  /\ \A d \in DOMAIN result.val.day_hours :
                        \E k2 \in MatchedSignIns(result.val.rows) :
                            DateOf(result.val.rows[k2].timestamp) = d
    /\ (/\ result.op = "compute" /\ result.err = "none"
        /\ Len(MonthRows) = 2 /\ Alternating(MonthRows)
        /\ MonthRows[1].event = "sign_in"
        /\ CrossesMidnight(MonthRows, 1)
        /\ SecondsBetween(MonthRows[1].timestamp, MonthRows[2].timestamp) > 28800) =>
          /\ result.val.regular_hours = 800
          /\ Hundredths(SecondsBetween(MonthRows[1].timestamp, MonthRows[2].timestamp)
                          - 28800, result.val.overtime_hours)

\* C17 witness: the shift from 09:00 on 2024-12-30 to 08:00 on 2024-12-31 was
\* computed: 8 regular hours and 15 of overtime.
OvernightShiftComputed ==
    /\ result.op = "compute"
    /\ result.err = "none"
    /\ Len(MonthRows) = 2
    /\ MonthRows[1].event = "sign_in" /\ MonthRows[1].timestamp = Dec30(Hour(9))
    /\ MonthRows[2].event = "sign_out" /\ MonthRows[2].timestamp = Dec31(Hour(8))
    /\ result.val.regular_hours = 800
    /\ result.val.overtime_hours = 1500

-----------------------------------------------------------------------------
(* Properties of the order of reading and of the pairing, checked under
   SpecPair *)

\* the rows of the last aggregate call that parse, in the order read
ReadRows == SelectSeq(result.val.rows, LAMBDA row : Parses(row.timestamp))

\* d |-> secs added to a mapping
Credit(day_hours, d, secs) ==
    IF d \in DOMAIN day_hours THEN [day_hours EXCEPT ![d] = @ + secs]
    ELSE day_hours @@ (d :> secs)

\* the pairing in which a sign_in whose next sign_out is not after it is
\* dropped and scanning resumes at the event right after that sign_in
RECURSIVE PairAdvancingByOne(_, _, _)
PairAdvancingByOne(rows, i, day_hours) ==
    IF i > Len(rows) THEN day_hours
    ELSE IF rows[i].event # "sign_in" THEN PairAdvancingByOne(rows, i + 1, day_hours)
    ELSE LET outs == {j \in (i + 1)..Len(rows) : rows[j].event = "sign_out"}
             j    == CHOOSE x \in outs : \A k \in outs : x <= k
         IN  IF outs = {} THEN PairAdvancingByOne(rows, i + 1, day_hours)
             ELSE IF SecondsBetween(rows[i].timestamp, rows[j].timestamp) > 0
             THEN PairAdvancingByOne(rows, j + 1,
                      Credit(day_hours, DateOf(rows[i].timestamp),
                             SecondsBetween(rows[i].timestamp, rows[j].timestamp)))
             ELSE PairAdvancingByOne(rows, i + 1, day_hours)

\* C14: when the matched sign_out is not strictly after its sign_in only that
\* sign_in is discarded and the cursor advances by one event: the hours
\* mapping is that of the pairing which resumes right after the discarded
\* sign_in.
FailedMatchAdvancesByOne ==
    result.op = "aggregate"
      => result.val.day_hours = PairAdvancingByOne(ReadRows, 1, <<>>)

\* the position of the first sign_in of a list (0: none)
FirstSignIn(rows) ==
    LET ins == {k \in DOMAIN rows : rows[k].event = "sign_in"}
    IN  IF ins = {} THEN 0 ELSE CHOOSE x \in ins : \A k \in ins : x <= k

\* rows f..n are a sign_in, then sign_ins and corrections only, then a
\* sign_out that is later than the first sign_in
GreedyRun(rows, f, n) ==
    /\ f > 0 /\ n > f /\ n <= Len(rows)
    /\ \A k \in (f + 1)..(n - 1) : rows[k].event \in {"sign_in", "correction"}
    /\ rows[n].event = "sign_out"
    /\ SecondsBetween(rows[f].timestamp, rows[n].timestamp) > 0

\* C15: pairing is greedy on the first sign_in: for sign_in a, then further
\* sign_ins or corrections, then sign_out c with c > a, the interval credited
\* is c - a on a's date, the skipped sign_ins add nothing, and scanning
\* resumes after c: the rest of the mapping is that of the events after c.
GreedyOnFirstSignIn ==
    result.op = "aggregate" =>
        \A n \in DOMAIN ReadRows :
            GreedyRun(ReadRows, FirstSignIn(ReadRows), n)
              => result.val.day_hours
                   = Credit(aggregate_hours_by_day(SubSeq(ReadRows, n + 1, Len(ReadRows)),
                                                   result.args[1], result.args[2],
                                                   result.args[3]),
                            DateOf(ReadRows[FirstSignIn(ReadRows)].timestamp),
                            SecondsBetween(ReadRows[FirstSignIn(ReadRows)].timestamp,
                                           ReadRows[n].timestamp))

\* C15 witness: sign_in 08:00, a correction and a second sign_in at 09:00,
\* sign_out 10:00: two hours, from the first sign_in.
FirstSignInPaired ==
    /\ result.op = "aggregate"
    /\ Len(ReadRows) = 4
    /\ ReadRows[1].event = "sign_in" /\ ReadRows[1].timestamp = Dec31(Hour(8))
    /\ ReadRows[2].event = "correction"
    /\ ReadRows[3].event = "sign_in" /\ ReadRows[3].timestamp = Dec31(Hour(9))
    /\ ReadRows[4].event = "sign_out" /\ ReadRows[4].timestamp = Dec31(Hour(10))
    /\ result.val.day_hours = (<<2024, 12, 31>> :> 7200)

\* the table without the row of the given id
Without(att, id) == SelectSeq(att, LAMBDA row : row.id # id)

\* row p of the rows read is a sign_out and the last sign_in or sign_out
\* before it, if any, is a sign_out: no sign_in waits for it
StraySignOut(rows, p) ==
    LET before == {k \in 1..(p - 1) : rows[k].event \in {"sign_in", "sign_out"}}
    IN  /\ rows[p].event = "sign_out"
        /\ \/ before = {}
           \/ rows[CHOOSE x \in before : \A k \in before : k <= x].event = "sign_out"

\* the event is one the pairing ignores
Ignored(row) ==
    \/ ~Parses(row.timestamp)
    \/ row.event = "correction"
    \/ \E p \in DOMAIN ReadRows : ReadRows[p] = row /\ StraySignOut(ReadRows, p)

\* C16: ignored events are treated as absent: removing an event whose
\* timestamp does not parse, a correction, or a sign_out with no unmatched
\* sign_in before it leaves the mapping of _aggregate_hours_by_day as it was.
IgnoredEventsAbsent ==
    result.op = "aggregate" =>
        \A i \in DOMAIN attendance :
            Ignored(attendance[i])
              => aggregate_hours_by_day(Without(attendance, attendance[i].id),
                                        result.args[1], result.args[2], result.args[3])
                   = result.val.day_hours

\* C16 witness: a table with a sign_out that does not parse and a stray
\* sign_out beside a pair was aggregated to the pair's two hours.
IgnoredEventsAggregated ==
    /\ result.op = "aggregate"
    /\ \E i \in DOMAIN attendance : ~Parses(attendance[i].timestamp)
    /\ \E p \in DOMAIN ReadRows : StraySignOut(ReadRows, p)
    /\ result.val.day_hours = (<<2024, 12, 31>> :> 7200)

\* (timestamp, id) order of two rows
KeyLess(a, b) ==
    \/ TextLess(a.timestamp, b.timestamp)
    \/ (a.timestamp = b.timestamp /\ a.id < b.id)

\* the rows of a set in (timestamp, id) order
InKeyOrder(rows) ==
    [i \in 1..Cardinality(rows) |->
        CHOOSE r \in rows : Cardinality({q \in rows : KeyLess(q, r)}) = i - 1]

\* employee 1's stored events of December 2024, and those of 2024-12-31
\* written with "T"
StoredOfMonth ==
    {attendance[i] : i \in {k \in DOMAIN attendance :
        /\ attendance[k].employee_id = 1
        /\ attendance[k].timestamp.y = 2024 /\ attendance[k].timestamp.mo = 12}}

StoredOfDay ==
    {r \in StoredOfMonth : r.timestamp.d = 31 /\ r.timestamp.sep = "T"}

SignOutRowOf(call, id) ==
    [id |-> id, employee_id |-> call.args[1], event |-> "sign_out",
     timestamp |-> call.val.ts, corrected_by_hr |-> 0, note |-> ""]

\* C19: a sign-out made through the attendance menu stores the sign_out row
\* whatever the payroll update does; for an active employee, unless the
\* update raises, payroll_runs then holds a row for (employee, year and month
\* of the sign-out) whose fields equal compute_for_employee on the events
\* including that sign-out; when the update raises, payroll_runs is as before.
MenuSignOutPersists ==
    [][(result'.op = "menu_sign_out" /\ next_attendance_id' # next_attendance_id) =>
          LET eid == result'.args[1]
              ts  == result'.val.ts
              pr  == compute_for_employee(employees, adjustments, attendance',
                                          eid, ts.y, ts.mo, NoRate)
          IN  /\ attendance' = Append(attendance,
                                      SignOutRowOf(result', next_attendance_id))
              /\ (ActiveEmployee(employees, eid) /\ ~result'.args[2]) =>
                    /\ pr.err = "none"
                    /\ result'.val.persisted
                    /\ \E i \in RunsFor(payroll_runs', eid, ts.y, ts.mo) :
                          RowHolds(payroll_runs', i, pr.val)
              /\ ~result'.val.persisted => payroll_runs' = payroll_runs
      ]_vars

\* C19 witness: a menu sign-out closed an eight-hour shift of employee 1 and
\* the stored run of December 2024 shows the eight hours.
MenuSignOutStoredShift ==
    /\ result.op = "menu_sign_out"
    /\ result.args = <<1, FALSE>>
    /\ result.val.persisted
    /\ \E i \in RunsFor(payroll_runs, 1, 2024, 12) :
          /\ payroll_runs[i].regular_hours = 800
          /\ payroll_runs[i].gross_pay = 16000

\* the operations that record or read attendance and the payroll computation
AttendanceOps == {"sign_in", "sign_out", "add_correction", "delete_record", "compute"}

\* C20: payroll_runs rows are never deleted and only the persistence
\* operations write them: a key that has a row keeps one in every later
\* state, and sign_in, sign_out, add_correction, delete_record and
\* compute_for_employee leave payroll_runs as it was.
RunsKeptAndWrittenByPersistOnly ==
    [][/\ \A k \in Keys :
             RunsOfKey(payroll_runs, k) # {} => RunsOfKey(payroll_runs', k) # {}
       /\ result'.op \in AttendanceOps => payroll_runs' = payroll_runs
      ]_vars

\* C20 witness: the run of December 2024 stored for employee 1 still shows
\* eight hours after an event of the shift was deleted or a correction or
\* sign-in was added, while compute_for_employee now returns other hours.
StoredRunIsSnapshot ==
    /\ result.op \in {"delete_record", "add_correction", "sign_in"}
    /\ result.err = "none"
    /\ \E i \in RunsFor(payroll_runs, 1, 2024, 12) :
          /\ payroll_runs[i].regular_hours = 800
          /\ compute_for_employee(employees, adjustments, attendance,
                                  1, 2024, 12, NoRate).val.regular_hours # 800

\* the ids of the stored attendance rows
AttendanceIds(att) == {att[i].id : i \in DOMAIN att}

\* att2 is att followed by new rows: every stored row is kept as it was
KeepsRows(att, att2) ==
    /\ Len(att2) >= Len(att)
    /\ \A i \in DOMAIN att : att2[i] = att[i]

\* C21: attendance is append-only. A sign_in, sign_out or add_correction
\* that succeeds adds exactly one row under a new id (corrected_by_hr = 0 for
\* sign_in and sign_out, 1 for a correction) after the stored rows, which stay
\* as they were; no operation other than delete_record changes or removes a
\* stored row, and a delete_record that is not refused removes the row of the
\* given id only.
AttendanceAppendOnly ==
    [][/\ (/\ result'.op \in {"sign_in", "sign_out", "add_correction"}
           /\ result'.err = "none"
           /\ next_attendance_id' # next_attendance_id) =>
             LET new == attendance'[Len(attendance')]
             IN  /\ Len(attendance') = Len(attendance) + 1
                 /\ new.id \notin AttendanceIds(attendance)
                 /\ new.employee_id = result'.args[1]
                 /\ new.corrected_by_hr
                      = (IF result'.op = "add_correction" THEN 1 ELSE 0)
                 /\ new.event = (IF result'.op = "add_correction"
                                 THEN result'.args[3] ELSE result'.op)
       /\ result'.op # "delete_record" => KeepsRows(attendance, attendance')
       /\ result'.op = "delete_record" =>
             attendance' = (IF result'.err = "none"
                            THEN DeleteAttendance(attendance, result'.args[1])
                            ELSE attendance)
      ]_vars

\* C21 witness: HR corrected a sign_in of employee 1; the correction is a
\* second row with corrected_by_hr = 1 beside the recorded sign_in.
CorrectionBesideRecordedEvent ==
    /\ result.op = "add_correction"
    /\ result.err = "none"
    /\ Len(attendance) = 2
    /\ attendance[1].event = "sign_in"
    /\ attendance[1].employee_id = 1
    /\ attendance[1].corrected_by_hr = 0
    /\ attendance[1].timestamp = NowAt(1)
    /\ attendance[2].event = "sign_in"
    /\ attendance[2].employee_id = 1
    /\ attendance[2].corrected_by_hr = 1

\* C22: every stored attendance event has kind sign_in, sign_out or
\* correction, whatever event value add_correction was called with.
StoredKindsKnown ==
    \A i \in DOMAIN attendance : attendance[i].event \in EventKinds

\* C23: only HR adds corrections and deletes records. When the current user
\* is not HR, or no user is set, add_correction and delete_record raise
\* PermissionError and leave attendance as it was; _resolve_target_employee
\* gives a non-HR user the linked employee_id only, and refuses any other
\* requested id and a user with no employee linked.
OnlyHrCorrectsAndDeletes ==
    [][~IsHr(current_user) =>
          LET linked    == LinkedEmployee(current_user)
              requested == result'.args[1]
          IN  /\ result'.op \in {"add_correction", "delete_record"} =>
                    /\ result'.err = "PermissionError"
                    /\ attendance' = attendance
              /\ result'.op = "resolve_target" =>
                    /\ result'.err \in {"none", "PermissionError"}
                    /\ result'.err = "none" <=>
                          /\ linked # <<>>
                          /\ requested \in {<<>>, linked}
                    /\ result'.err = "none" => result'.val.employee_id = linked
      ]_vars

\* C23 witness: an employee's account asked to delete the stored record 1, was
\* refused, and the record is still there.
DeleteRefusedForEmployeeAccount ==
    /\ current_user = Clerk
    /\ result.op = "delete_record"
    /\ result.args = <<1>>
    /\ result.err = "PermissionError"
    /\ 1 \in AttendanceIds(attendance)

\* C24: exporting the monthly CSV only computes and writes the file:
\* export_monthly_csv leaves payroll_runs as it was.
ExportLeavesRunsUnchanged ==
    [][result'.op = "menu_export" => payroll_runs' = payroll_runs]_vars

\* the pairs of an employee's whole event history: date of the sign_in ->
\* seconds, the history read in timestamp order without a window
WholeHistoryPairs(att, employee_id) ==
    LET Own(row) == row.employee_id = employee_id
    IN  PairFrom(ParsedRows(OrderByTimestamp(SelectSeq(att, Own))), 1, <<>>)

\* the seconds a mapping holds for the days of a month
SecondsOfMonth(day_hours, year, month) ==
    SumOverDays(day_hours, {d \in DOMAIN day_hours : d[1] = year /\ d[2] = month})

\* every stored timestamp is ISO text written with "T" that parses
IsoHistory(att) ==
    \A i \in DOMAIN att : att[i].timestamp.sep = "T" /\ Parses(att[i].timestamp)

\* C25: every matched shift is paid in the month of its sign_in, also when
\* its sign_out lies in the next month: for a history of ISO timestamps, the
\* hours _aggregate_hours_by_day returns for a month are those of the pairs
\* of the whole history whose sign_in is in that month.
ShiftPaidInMonthOfSignIn ==
    (result.op = "aggregate" /\ IsoHistory(attendance)) =>
        SecondsOfMonth(result.val.day_hours, result.args[2], result.args[3])
          = SecondsOfMonth(WholeHistoryPairs(attendance, result.args[1]),
                           result.args[2], result.args[3])

\* C26: the daily view and the monthly computation agree: the total_hours of
\* compute_hours_for_day(employee, date) are the hours _aggregate_hours_by_day
\* assigns to that date in its month (0 when the date is absent), here for
\* histories whose sign_ins and sign_outs alternate, shifts that end after
\* midnight included.
DailyViewAgreesWithMonth ==
    LET employee_id == result.args[1]
        date        == result.args[2]
        day_hours   == aggregate_hours_by_day(attendance, employee_id, date[1], date[2])
    IN  (/\ result.op = "hours_for_day"
         /\ Alternating(QueryMonth(attendance, employee_id, date[1], date[2]))) =>
            result.val.total_hours
              = HoursField(IF date \in DOMAIN day_hours THEN day_hours[date] ELSE 0)

====
